---- MODULE Spec2Model ----
(***************************************************************************)
(* State-machine model of tdmclient's cooperative concurrency layer,       *)
(* ClientAsync (src/tdmclient/clientasync.py): the trampoline driver       *)
(* run_async_program, the suspension primitives wait_for_node,             *)
(* wait_for_status and send_msg_and_get_result, and the scoped lock        *)
(* protocol lock() / Lock.__exit__.                                        *)
(*                                                                         *)
(* The base class Client (the Session: node list, inbound message pump,    *)
(* send operations taking a completion callback) is not part of the        *)
(* sources at hand; it is modelled from the interface description.         *)
(***************************************************************************)
EXTENDS Integers, Sequences, FiniteSets, TLC

VARIABLES
    nodes,      \* Client.nodes: ordered node records
    inbox,      \* inbound messages received and not yet pumped
    delivered,  \* number of inbound messages received so far
    slots,      \* per send_msg_and_get_result call: closure cells result/done,
                \* and the history of the invocations of its callback
    task,       \* state of the root coroutine
    pc,         \* position of the root coroutine
    ctx,        \* who awaits the running primitive: "body", "lock", or
                \* one of the derived operations
    expected,   \* wait_for_status: expected_status
    node_id_str,\* lock(): local node_id_str
    req,        \* slot of the send_msg_and_get_result call in progress
    exc,        \* exception being propagated through the task
    scopes,     \* stack of open "with" scopes (indices into locks)
    locks,      \* history of lock() attempts that got their reply
    sent,       \* unlock requests sent, by Lock.__exit__ or by unlock_node
    driver,     \* run_async_program: "running", "returned", "raised"
    driverExc,  \* exception that left run_async_program
    quantum,    \* number of co.send(None) performed by the driver
    ncalls,     \* number of waits and sends called from the task body
    nlocks,     \* number of lock() calls made by the task body
    call,       \* observation of the primitive call in progress / last one
    tick,       \* observation of the last poll tick of a primitive
    clock,      \* time.monotonic(), in units of DEFAULT_SLEEP / 1000
    pumped,     \* whether the Session was pumped in the current quantum
    nyields,    \* number of times the root coroutine has yielded
    frame,      \* sleep(): locals duration and t0
    run         \* tools/run.py, main(): its options, status, the position
                \* of prog, and the exit status the robot has emitted

vars == <<nodes, inbox, delivered, slots, task, pc, ctx, expected,
          node_id_str, req, exc, scopes, locks, sent, driver, driverExc,
          quantum, ncalls, nlocks, call, tick, clock, pumped, nyields,
          frame, run>>

----------------------------------------------------------------------------
\* Bounds of the model

MaxMsgs == 2
MaxCalls == 2
MaxLocks == 1
MaxQuantum == 4
MaxExits == 2

----------------------------------------------------------------------------
\* Values

None == "None"
NodeIds == {"n1", "n2"}
NODE_STATUS_UNKNOWN == "UNKNOWN"
NODE_STATUS_AVAILABLE == "AVAILABLE"
NODE_STATUS_DISCONNECTED == "DISCONNECTED"
Statuses == {NODE_STATUS_UNKNOWN, NODE_STATUS_AVAILABLE}
Payloads == {None, "error"}
Exceptions == {"Exception", "StopIteration"}

\* ClientAsync.DEFAULT_SLEEP, 0.1 s, in units of 0.1 ms
DEFAULT_SLEEP == 1000

\* durations passed to sleep(), and the time a pump can take
Durations == {-1, 0, 500, 2500}
PumpTimes == {0, 700}

\* second argument of a call of sleep(): absent, or a wake predicate that
\* is false or true
WakeArgs == {"absent", "false", "true"}

\* tools/run.py: exit statuses a program can send with its "_exit" event,
\* and the error codes of a VM state change
ExitStatuses == {"0", "3"}
ERROR_NO_ERROR == "ERROR_NO_ERROR"
VmErrors == {ERROR_NO_ERROR, "ERROR"}

\* events of a watched node: a custom event with its first data item, or a
\* change of the VM state
EventMsgs ==
    [type : {"event"}, event_name : {"_exit", "custom"},
     event_data : ExitStatuses]
    \cup [type : {"vm_state"}, error : VmErrors]

\* the operations defined as one send_msg_and_get_result each
DerivedOps == {"compile", "run", "flash", "watch"}

NoNode == [node_id_str |-> None, status |-> None]

NodeMsgs ==
    [type : {"node"}, node_id_str : NodeIds,
     status : Statuses \cup {NODE_STATUS_DISCONNECTED},
     req : {0}, payload : {None}]

ReplyMsgs(sl) ==
    [type : {"reply"}, node_id_str : {None}, status : {None},
     req : DOMAIN sl, payload : Payloads]

\* the request id of the i-th unlock request: an id under which no
\* completion callback is registered
UnlockReq(i) == MaxCalls + MaxLocks + i

UnlockReplies(out) ==
    [type : {"reply"}, node_id_str : {None}, status : {None},
     req : {UnlockReq(i) : i \in {j \in DOMAIN out :
                                     /\ out[j].request_id_notify = None
                                     /\ out[j].reply = "none"}},
     payload : Payloads]

----------------------------------------------------------------------------
\* Session (class Client)

RECURSIVE RemoveNode(_, _)
RemoveNode(ns, id) ==
    IF ns = <<>> THEN <<>>
    ELSE IF Head(ns).node_id_str = id THEN RemoveNode(Tail(ns), id)
    ELSE <<Head(ns)>> \o RemoveNode(Tail(ns), id)

HasNode(ns, id) == \E i \in DOMAIN ns : ns[i].node_id_str = id

\* a node event: announce a node, change its status, or drop it
ApplyNodeMsg(ns, m) ==
    IF m.status = NODE_STATUS_DISCONNECTED THEN RemoveNode(ns, m.node_id_str)
    ELSE IF HasNode(ns, m.node_id_str)
    THEN [i \in DOMAIN ns |->
            IF ns[i].node_id_str = m.node_id_str
            THEN [ns[i] EXCEPT !.status = m.status] ELSE ns[i]]
    ELSE Append(ns, [node_id_str |-> m.node_id_str, status |-> m.status])

\* mutant: "nonlocal done" forgotten, the flag set is a local of notify
notify_local_done(slot, r) == [slot EXCEPT !.result = r]

\* send_msg_and_get_result.notify: result = r; done = True
notify(slot, r) == [slot EXCEPT !.result = r, !.done = TRUE]

\* mutant: result and done kept in attributes shared by all calls, so
\* that a callback writes the cells the latest call reads
InvokeCallback_shared(sl, k, r) == [sl EXCEPT ![Len(sl)] = notify(@, r)]

\* the callback handed to the send operation of call k is the closure
\* over the cells of call k
InvokeCallback(sl, k, r) == [sl EXCEPT ![k] = notify(@, r)]

RECURSIVE PumpNodes(_, _)
PumpNodes(ns, box) ==
    IF box = <<>> THEN ns
    ELSE PumpNodes(IF Head(box).type = "node"
                   THEN ApplyNodeMsg(ns, Head(box)) ELSE ns, Tail(box))

\* history: the callback of call k was invoked with r
LogCallback(sl, k, r) ==
    [sl EXCEPT ![k].n = @ + 1,
               ![k].got = @ \cup {r},
               ![k].first = IF sl[k].n = 0 THEN r ELSE @,
               ![k].late = @ \/ sl[k].state = "returned"]

\* a reply is dispatched to the completion callback registered with the
\* request it answers
Dispatch(sl, k, r) == LogCallback(InvokeCallback(sl, k, r), k, r)

RECURSIVE PumpSlots(_, _)
PumpSlots(sl, box) ==
    IF box = <<>> THEN sl
    ELSE PumpSlots(IF Head(box).type = "reply" /\ Head(box).req \in DOMAIN sl
                   THEN Dispatch(sl, Head(box).req, Head(box).payload)
                   ELSE sl, Tail(box))

\* Client.process_waiting_messages(): whether a message was processed
process_waiting_messages(box) == box # <<>>

----------------------------------------------------------------------------
\* ClientAsync

first_node(ns) == IF Len(ns) > 0 THEN ns[1] ELSE NoNode

\* mutant: the node test is dropped, any processed message ends the wait
wait_for_node_step_any_message(progress, ns) ==
    IF progress THEN "return" ELSE "sleep_yield"

\* one iteration of the loop of wait_for_node
wait_for_node_step(progress, ns) ==
    IF progress
    THEN IF first_node(ns) # NoNode THEN "return" ELSE "yield"
    ELSE "sleep_yield"

\* mutant: the status test is dropped, any first node ends the wait
wait_for_status_step_any_status(progress, ns, expected_status) ==
    IF progress
    THEN IF first_node(ns) # NoNode THEN "return" ELSE "yield"
    ELSE "sleep_yield"

\* one iteration of the loop of wait_for_status
wait_for_status_step(progress, ns, expected_status) ==
    IF progress
    THEN IF first_node(ns) # NoNode
         THEN IF first_node(ns).status = expected_status
              THEN "return" ELSE "yield"
         ELSE "yield"
    ELSE "sleep_yield"

\* wait_for_node, wait_for_status: "sleep(self.DEFAULT_SLEEP)" in the branch
\* taken when the pump processed no message
wait_sleep(step) == IF step = "sleep_yield" THEN DEFAULT_SLEEP ELSE 0

\* send_msg_and_get_result: "sleep(self.DEFAULT_SLEEP)" after each
\* resumption, before the pump
send_wait_sleep == DEFAULT_SLEEP

\* send_msg_and_get_result: "while not done"
send_wait_step(slot) == IF ~slot.done THEN "yield" ELSE "return"

Min(a, b) == IF a < b THEN a ELSE b
Max(a, b) == IF a > b THEN a ELSE b

\* tools/run.py, prog: the keyword arguments of its call of lock()
LockKwargs == {"node_id", "node_name"}

\* "def lock(self, node_id_str=None)": the keyword arguments the call binds
lock_accepts(kwargs) == kwargs \subseteq {"node_id_str"}

\* "def sleep(self, duration)": the call binds one argument, duration
sleep_accepts(wake) == wake = "absent"

\* mutant: the deadline is tested one base interval early
sleep_continues_early(duration, t0, now) ==
    duration < 0 \/ now + DEFAULT_SLEEP < t0 + duration

\* sleep: "while duration < 0 or monotonic() < t0 + duration"
sleep_continues(duration, t0, now) == duration < 0 \/ now < t0 + duration

\* mutant: the base interval is slept in every tick
sleep_interval_base(duration, t0, now) == DEFAULT_SLEEP

\* sleep: the argument of the blocking sleep of a tick
sleep_interval(duration, t0, now) ==
    IF duration < 0
    THEN DEFAULT_SLEEP
    ELSE Max(Min(DEFAULT_SLEEP, t0 + duration - now), DEFAULT_SLEEP \div 1000)

\* mutant: the pump is made only by the sleep that has no deadline
sleep_tick_pumps_forever_only(duration) == duration < 0

\* sleep: self.process_waiting_messages() is in the body of the loop
sleep_tick_pumps(duration) == TRUE

\* mutant: "return result" forgotten, the operation returns None
derived_result_not_returned(op, result) == None

\* compile, run, flash, watch: "result = yield from
\* self.send_msg_and_get_result(...)", "return result"
derived_result(op, result) == result

\* mutant: the node is taken from the other end of the list
lock_pick_last(ns) == IF Len(ns) > 0 THEN ns[Len(ns)] ELSE NoNode

\* lock: "self.first_node()" after the wait, the node whose id is locked
lock_pick(ns) == first_node(ns)

\* mutant: the error test is dropped, a guard is returned whatever the reply
lock_outcome_unchecked(result) == "guard"

\* lock(): "if result is not None: raise Exception" else "return Lock(...)"
lock_outcome(result) == IF result # None THEN "raised" ELSE "guard"

\* mutant: __enter__ returns the guard object, not the node id
Lock_enter_self(guard) == "self"

\* Lock.__enter__
Lock_enter(guard) == guard.node_id_str

\* mutant: the unlock is sent only when the scope is left without exception
Lock_exit_unless_failure(out, g, guard, exctype) ==
    IF exctype = None
    THEN Append(out, [msg |-> "unlock_node",
                      node_id_str |-> guard.node_id_str,
                      guard |-> g, req |-> guard.req,
                      request_id_notify |-> None, reply |-> "none"])
    ELSE out

\* mutant: the unlock is sent with a completion callback
Lock_exit_with_callback(out, g, guard, exctype) ==
    Append(out, [msg |-> "unlock_node", node_id_str |-> guard.node_id_str,
                 guard |-> g, req |-> guard.req,
                 request_id_notify |-> "notify", reply |-> "none"])

\* unlock_node: self.send_unlock_node(node_id_str, request_id_notify=notify),
\* the request of the send_msg_and_get_result call of slot k
unlock_node_request(out, node, k) ==
    Append(out, [msg |-> "unlock_node", node_id_str |-> node,
                 guard |-> 0, req |-> k,
                 request_id_notify |-> "notify", reply |-> "none"])

\* Lock.__exit__(type, value, traceback): self.tdm.send_unlock_node(node_id_str)
Lock_exit(out, g, guard, exctype) ==
    Append(out, [msg |-> "unlock_node", node_id_str |-> guard.node_id_str,
                 guard |-> g, req |-> guard.req,
                 request_id_notify |-> None, reply |-> "none"])

\* what co.send(None) raises when the coroutine body raises e: a
\* StopIteration raised inside a coroutine leaves it as a RuntimeError
co_send_raises(e) == IF e = "StopIteration" THEN "RuntimeError" ELSE e

\* mutant: no except clause, the StopIteration that ends the task leaves
\* the driver
run_async_program_no_except(e) == "raised"

\* mutant: "except Exception: pass"
run_async_program_except_all(e) == "returned"

\* run_async_program: "except StopIteration: pass"
run_async_program(e) == IF e = "StopIteration" THEN "returned" ELSE "raised"

----------------------------------------------------------------------------
\* Observations

NoCall == [prim |-> "none", startQ |-> 0, endQ |-> 0, cond |-> FALSE,
           ticks |-> 0, pumps |-> 0, sleeps |-> 0, yields |-> 0,
           sync |-> FALSE, returned |-> FALSE, arg |-> None, req |-> 0,
           duration |-> 0, t0 |-> 0, wake |-> "absent", pumpTime |-> 0,
           raised |-> FALSE, op |-> "none", value |-> None]

NoTick == [prim |-> "none", progress |-> FALSE, before |-> FALSE,
           after |-> FALSE, outcome |-> "none", first |-> FALSE,
           hadNode |-> FALSE, pumped |-> FALSE, interval |-> 0,
           remaining |-> 0]

NoFrame == [duration |-> 0, t0 |-> 0]

\* tools/run.py, main(): the variables set from the command line, and
\* "status = 0"; main is false in a program that is not the run tool
NoRun == [main |-> FALSE, stop |-> FALSE, scratchpad |-> 0, sleep |-> None,
          has_events |-> FALSE, robot_id |-> None, status |-> "0",
          at |-> "lock", emitted |-> None]

\* main() of the run tool before run_async_program(prog): --stop,
\* --scratchpad / --sponly, --sleep / --nosleep, --event, --robotid
RunStarts ==
    {[NoRun EXCEPT !.main = TRUE, !.stop = st, !.scratchpad = sp,
                   !.sleep = sl, !.has_events = ev, !.robot_id = id] :
        st \in BOOLEAN, sp \in 0..2, sl \in {None, "True", "False"},
        ev \in BOOLEAN, id \in NodeIds \cup {None}}

\* history: the exit status the robot asks for with the message m
Emitted(r, m) ==
    IF m.type = "event" /\ m.event_name = "_exit"
    THEN [r EXCEPT !.emitted = m.event_data]
    ELSE IF m.type = "vm_state" /\ m.error # ERROR_NO_ERROR
    THEN [r EXCEPT !.emitted = "1"]
    ELSE r

NodeCond(ns) == first_node(ns) # NoNode
StatusCond(ns, e) == first_node(ns) # NoNode /\ first_node(ns).status = e

NewCall(p, c, a, k) ==
    [NoCall EXCEPT !.prim = p, !.startQ = quantum, !.cond = c, !.arg = a,
                   !.req = k]

AfterWait == IF ctx = "lock" THEN "lock_pick" ELSE "body"
AfterSend ==
    IF ctx = "lock" THEN "lock_result"
    ELSE IF ctx \in DerivedOps THEN "op_result"
    ELSE "body"

Unlocks(g) == Cardinality({i \in DOMAIN sent : sent[i].guard = g})

----------------------------------------------------------------------------
InitClient ==
    /\ nodes = <<>>
    /\ inbox = <<>>
    /\ delivered = 0
    /\ slots = <<>>
    /\ task = "Suspended"
    /\ pc = "start"
    /\ ctx = "body"
    /\ expected = None
    /\ node_id_str = None
    /\ req = 0
    /\ exc = None
    /\ scopes = <<>>
    /\ locks = <<>>
    /\ sent = <<>>
    /\ driver = "running"
    /\ driverExc = None
    /\ quantum = 0
    /\ ncalls = 0
    /\ nlocks = 0
    /\ call = NoCall
    /\ tick = NoTick
    /\ clock = 0
    /\ pumped = FALSE
    /\ nyields = 0
    /\ frame = NoFrame

Init == InitClient /\ run = NoRun

\* the run tool: main() has read its options and calls run_async_program
InitRun == InitClient /\ run \in RunStarts

\* the peer sends a message: a node event, or a reply to a request.  A
\* message is only observed by the next pump, so arrivals are taken at the
\* points where a pump comes next: while the task is suspended, or at the
\* top of a poll tick
Deliver ==
    /\ delivered < MaxMsgs
    /\ driver = "running"
    /\ task = "Suspended" \/ pc \in {"wfn", "wfs"}
    /\ \E m \in NodeMsgs \cup ReplyMsgs(slots) :
          inbox' = Append(inbox, m)
    /\ delivered' = delivered + 1
    /\ UNCHANGED <<nodes, slots, task, pc, ctx, expected, node_id_str,
                   req, exc, scopes, locks, sent, driver, driverExc, quantum,
                   ncalls, nlocks, call, tick>>
    /\ UNCHANGED <<clock, pumped, nyields, frame>>
    /\ UNCHANGED run

\* the peer answers an unlock request, with success or with an error
DeliverUnlockReply ==
    /\ delivered < MaxMsgs
    /\ driver = "running"
    /\ task = "Suspended" \/ pc \in {"wfn", "wfs"}
    /\ \E m \in UnlockReplies(sent) :
          /\ inbox' = Append(inbox, m)
          /\ sent' = [i \in DOMAIN sent |->
                        IF UnlockReq(i) = m.req
                        THEN [sent[i] EXCEPT
                                 !.reply = IF m.payload = None
                                           THEN "ok" ELSE "error"]
                        ELSE sent[i]]
    /\ delivered' = delivered + 1
    /\ UNCHANGED <<nodes, slots, task, pc, ctx, expected, node_id_str,
                   req, exc, scopes, locks, driver, driverExc, quantum,
                   ncalls, nlocks, call, tick, clock, pumped, nyields,
                   frame>>
    /\ UNCHANGED run

\* the watched node emits an event or changes its VM state
DeliverEvent ==
    /\ delivered < MaxMsgs
    /\ driver = "running"
    /\ task = "Suspended" \/ pc \in {"wfn", "wfs"}
    /\ \E m \in EventMsgs :
          /\ inbox' = Append(inbox, m)
          /\ run' = Emitted(run, m)
    /\ delivered' = delivered + 1
    /\ UNCHANGED <<nodes, slots, task, pc, ctx, expected, node_id_str,
                   req, exc, scopes, locks, sent, driver, driverExc, quantum,
                   ncalls, nlocks, call, tick, clock, pumped, nyields,
                   frame>>

\* run_async_program: co.send(None)
Resume ==
    /\ driver = "running"
    /\ task = "Suspended"
    /\ quantum < MaxQuantum
    /\ task' = "Running"
    /\ quantum' = quantum + 1
    /\ pc' = IF pc = "start" THEN "body" ELSE pc
    /\ UNCHANGED <<nodes, inbox, delivered, slots, ctx, expected,
                   node_id_str, req, exc, scopes, locks, sent, driver,
                   driverExc, ncalls, nlocks, call, tick>>
    /\ pumped' = FALSE
    /\ UNCHANGED <<clock, nyields, frame>>
    /\ UNCHANGED run

\* Client.process_waiting_messages(): drain the inbox, dispatching node
\* events to the node list and replies to their completion callbacks
Pumped ==
    /\ nodes' = PumpNodes(nodes, inbox)
    /\ slots' = PumpSlots(slots, inbox)
    /\ inbox' = <<>>

Counted(c, step, q) ==
    [c EXCEPT !.ticks = @ + 1,
              !.pumps = @ + 1,
              !.sleeps = @ + (IF step = "sleep_yield" THEN 1 ELSE 0),
              !.yields = @ + (IF step = "return" THEN 0 ELSE 1),
              !.returned = (step = "return"),
              !.endQ = IF step = "return" THEN q ELSE @]

\* task body: await client.wait_for_node()
CallWaitForNode ==
    /\ task = "Running" /\ pc = "body"
    /\ ncalls < MaxCalls
    /\ ncalls' = ncalls + 1
    /\ UNCHANGED nlocks
    /\ pc' = "wfn"
    /\ ctx' = "body"
    /\ call' = NewCall("wfn", NodeCond(nodes), None, 0)
    /\ tick' = NoTick
    /\ UNCHANGED <<nodes, inbox, delivered, slots, task, expected,
                   node_id_str, req, exc, scopes, locks, sent, driver,
                   driverExc, quantum>>
    /\ UNCHANGED <<clock, pumped, nyields, frame>>
    /\ UNCHANGED run

\* task body: await client.wait_for_status(e)
CallWaitForStatus ==
    /\ task = "Running" /\ pc = "body"
    /\ ncalls < MaxCalls
    /\ ncalls' = ncalls + 1
    /\ UNCHANGED nlocks
    /\ \E e \in Statuses :
          /\ expected' = e
          /\ call' = NewCall("wfs", StatusCond(nodes, e), e, 0)
    /\ pc' = "wfs"
    /\ ctx' = "body"
    /\ tick' = NoTick
    /\ UNCHANGED <<nodes, inbox, delivered, slots, task,
                   node_id_str, req, exc, scopes, locks, sent, driver,
                   driverExc, quantum>>
    /\ UNCHANGED <<clock, pumped, nyields, frame>>
    /\ UNCHANGED run

\* wait_for_node: one iteration of "while True"
WaitForNodeTick ==
    /\ task = "Running" /\ pc = "wfn"
    /\ Pumped
    /\ LET progress == process_waiting_messages(inbox)
           step == wait_for_node_step(progress, nodes')
       IN  /\ tick' = [prim |-> "wfn", progress |-> progress,
                       before |-> NodeCond(nodes), after |-> NodeCond(nodes'),
                       outcome |-> step, first |-> (call.ticks = 0),
                       hadNode |-> NodeCond(nodes), pumped |-> TRUE,
                       interval |-> wait_sleep(step), remaining |-> 0]
           /\ clock' = clock + wait_sleep(step)
           /\ call' = Counted(call, step, quantum)
           /\ IF step = "return"
              THEN task' = "Running" /\ pc' = AfterWait /\ expected' = None
              ELSE task' = "Suspended" /\ pc' = pc /\ UNCHANGED expected
    /\ UNCHANGED <<delivered, ctx, node_id_str, req, exc, scopes,
                   locks, sent, driver, driverExc, quantum, ncalls, nlocks>>
    /\ pumped' = TRUE
    /\ nyields' = IF task' = "Suspended" THEN nyields + 1 ELSE nyields
    /\ UNCHANGED frame
    /\ UNCHANGED run

\* wait_for_status: one iteration of "while True"
WaitForStatusTick ==
    /\ task = "Running" /\ pc = "wfs"
    /\ Pumped
    /\ LET progress == process_waiting_messages(inbox)
           step == wait_for_status_step(progress, nodes', expected)
       IN  /\ tick' = [prim |-> "wfs", progress |-> progress,
                       before |-> StatusCond(nodes, expected),
                       after |-> StatusCond(nodes', expected),
                       outcome |-> step, first |-> (call.ticks = 0),
                       hadNode |-> NodeCond(nodes), pumped |-> TRUE,
                       interval |-> wait_sleep(step), remaining |-> 0]
           /\ clock' = clock + wait_sleep(step)
           /\ call' = Counted(call, step, quantum)
           /\ IF step = "return"
              THEN task' = "Running" /\ pc' = AfterWait /\ expected' = None
              ELSE task' = "Suspended" /\ pc' = pc /\ UNCHANGED expected
    /\ UNCHANGED <<delivered, ctx, node_id_str, req, exc, scopes,
                   locks, sent, driver, driverExc, quantum, ncalls, nlocks>>
    /\ pumped' = TRUE
    /\ nyields' = IF task' = "Suspended" THEN nyields + 1 ELSE nyields
    /\ UNCHANGED frame
    /\ UNCHANGED run

\* send_msg_and_get_result up to its first yield: result = None,
\* done = False, send_fun(notify), "while not done: yield"
StartSend(kind, node, after) ==
    \E sync \in BOOLEAN : \E p \in Payloads :
    /\ ~sync => p = None
    /\ LET k == Len(slots) + 1
           fresh == [kind |-> kind, node_id_str |-> node, result |-> None,
                     done |-> FALSE, state |-> "waiting", ret |-> None,
                     n |-> 0, got |-> {}, first |-> None,
                     late |-> FALSE]
           sl1 == Append(slots, fresh)
           sl2 == IF sync THEN Dispatch(sl1, k, p) ELSE sl1
           step == send_wait_step(sl2[k])
       IN  /\ req' = IF step = "return" /\ after = "body" THEN 0 ELSE k
           /\ IF step = "return"
              THEN /\ slots' = [sl2 EXCEPT ![k].state = "returned",
                                           ![k].ret = sl2[k].result]
                   /\ task' = "Running" /\ pc' = after
                   /\ call' = [NewCall("send", sync, None, k) EXCEPT
                                  !.sync = sync, !.returned = TRUE,
                                  !.endQ = quantum]
              ELSE /\ slots' = sl2
                   /\ task' = "Suspended" /\ pc' = "send_wait"
                   /\ call' = [NewCall("send", sync, None, k) EXCEPT
                                  !.sync = sync, !.yields = 1]

\* task body: await client.send_msg_and_get_result(send_fun)
CallSend ==
    /\ task = "Running" /\ pc = "body"
    /\ ncalls < MaxCalls
    /\ ncalls' = ncalls + 1
    /\ UNCHANGED nlocks
    /\ ctx' = "body"
    /\ StartSend("msg", None, "body")
    /\ tick' = NoTick
    /\ UNCHANGED <<nodes, inbox, delivered, expected, node_id_str, exc,
                   scopes, locks, sent, driver, driverExc, quantum>>
    /\ nyields' = IF task' = "Suspended" THEN nyields + 1 ELSE nyields
    /\ UNCHANGED <<clock, pumped, frame>>
    /\ UNCHANGED run

\* task body: await client.unlock_node(node_id_str): a
\* send_msg_and_get_result whose send operation is send_unlock_node with the
\* completion callback
CallUnlockNode ==
    /\ task = "Running" /\ pc = "body"
    /\ ncalls < MaxCalls
    /\ ncalls' = ncalls + 1
    /\ UNCHANGED nlocks
    /\ ctx' = "body"
    /\ \E n \in NodeIds :
          /\ StartSend("unlock", n, "body")
          /\ sent' = unlock_node_request(sent, n, Len(slots) + 1)
    /\ tick' = NoTick
    /\ UNCHANGED <<nodes, inbox, delivered, expected, node_id_str, exc,
                   scopes, locks, driver, driverExc, quantum>>
    /\ nyields' = IF task' = "Suspended" THEN nyields + 1 ELSE nyields
    /\ UNCHANGED <<clock, pumped, frame, run>>

\* send_msg_and_get_result after a resumption: sleep(DEFAULT_SLEEP),
\* process_waiting_messages(), "while not done"
SendWaitTick ==
    /\ task = "Running" /\ pc = "send_wait"
    /\ nodes' = PumpNodes(nodes, inbox)
    /\ inbox' = <<>>
    /\ LET sl == PumpSlots(slots, inbox)
           step == send_wait_step(sl[req])
       IN  /\ tick' = [NoTick EXCEPT
                          !.prim = "send",
                          !.progress = process_waiting_messages(inbox),
                          !.outcome = step,
                          !.first = (call.ticks = 0),
                          !.pumped = TRUE,
                          !.interval = send_wait_sleep]
           /\ call' = [call EXCEPT !.ticks = @ + 1, !.pumps = @ + 1,
                                   !.sleeps = @ + 1,
                                   !.yields = @ + (IF step = "return"
                                                   THEN 0 ELSE 1),
                                   !.returned = (step = "return"),
                                   !.endQ = IF step = "return"
                                            THEN quantum ELSE @]
           /\ IF step = "return"
              THEN /\ slots' = [sl EXCEPT ![req].state = "returned",
                                          ![req].ret = sl[req].result]
                   /\ task' = "Running" /\ pc' = AfterSend
                   /\ req' = IF ctx = "body" THEN 0 ELSE req
              ELSE /\ slots' = sl
                   /\ task' = "Suspended" /\ pc' = pc
                   /\ UNCHANGED req
    /\ UNCHANGED <<delivered, ctx, expected, node_id_str, exc, scopes,
                   locks, sent, driver, driverExc, quantum, ncalls, nlocks>>
    /\ pumped' = TRUE
    /\ nyields' = IF task' = "Suspended" THEN nyields + 1 ELSE nyields
    /\ clock' = clock + send_wait_sleep
    /\ UNCHANGED frame
    /\ UNCHANGED run

\* task body: r = await client.compile(...), run(...), flash(...) or
\* watch(...): the operation up to the first yield of its
\* send_msg_and_get_result
CallOp ==
    /\ task = "Running" /\ pc = "body"
    /\ ncalls < MaxCalls
    /\ ncalls' = ncalls + 1
    /\ UNCHANGED nlocks
    /\ \E op \in DerivedOps : ctx' = op
    /\ StartSend("msg", None, "op_result")
    /\ tick' = NoTick
    /\ UNCHANGED <<nodes, inbox, delivered, expected, node_id_str, exc,
                   scopes, locks, sent, driver, driverExc, quantum>>
    /\ nyields' = IF task' = "Suspended" THEN nyields + 1 ELSE nyields
    /\ UNCHANGED <<clock, pumped, frame>>
    /\ UNCHANGED run

\* compile, run, flash, watch: "return result"
OpResult ==
    /\ task = "Running" /\ pc = "op_result"
    /\ call' = [call EXCEPT !.op = ctx,
                            !.value = derived_result(ctx, slots[req].ret)]
    /\ ctx' = "body"
    /\ req' = 0
    /\ pc' = "body"
    /\ UNCHANGED <<nodes, inbox, delivered, slots, task, expected,
                   node_id_str, exc, scopes, locks, sent, driver, driverExc,
                   quantum, ncalls, nlocks, tick, clock, pumped, nyields,
                   frame>>
    /\ UNCHANGED run

\* task body: await client.sleep(d), or await client.sleep(-1, wake);
\* sleep() up to the loop: t0 = monotonic()
CallSleep ==
    /\ task = "Running" /\ pc = "body"
    /\ ncalls < MaxCalls
    /\ ncalls' = ncalls + 1
    /\ ctx' = "body"
    /\ tick' = NoTick
    /\ \E d \in Durations : \E w \in WakeArgs :
          /\ w # "absent" => d = -1
          /\ IF sleep_accepts(w)
             THEN /\ frame' = [duration |-> d, t0 |-> clock]
                  /\ call' = [NewCall("sleep", FALSE, None, 0) EXCEPT
                                 !.duration = d, !.t0 = clock, !.wake = w]
                  /\ pc' = "sleep"
                  /\ UNCHANGED exc
             ELSE /\ call' = [NewCall("sleep", FALSE, None, 0) EXCEPT
                                 !.duration = d, !.t0 = clock, !.wake = w,
                                 !.raised = TRUE]
                  /\ exc' = "TypeError"
                  /\ pc' = "unwinding"
                  /\ UNCHANGED frame
    /\ UNCHANGED <<nodes, inbox, delivered, slots, task, expected,
                   node_id_str, req, scopes, locks, sent, driver, driverExc,
                   quantum, nlocks, clock, pumped, nyields>>
    /\ UNCHANGED run

\* sleep: the test of the loop, then either the return or one iteration:
\* process_waiting_messages(), the blocking sleep, yield
SleepTick ==
    /\ task = "Running" /\ pc = "sleep"
    /\ IF sleep_continues(frame.duration, frame.t0, clock)
       THEN \E pt \in PumpTimes :
            LET pumps == sleep_tick_pumps(frame.duration)
                now == IF pumps THEN clock + pt ELSE clock
                interval == sleep_interval(frame.duration, frame.t0, now)
            IN  /\ ~pumps => pt = 0
                /\ IF pumps
                   THEN /\ nodes' = PumpNodes(nodes, inbox)
                        /\ slots' = PumpSlots(slots, inbox)
                        /\ inbox' = <<>>
                        /\ pumped' = TRUE
                   ELSE UNCHANGED <<nodes, slots, inbox, pumped>>
                /\ clock' = now + interval
                /\ tick' = [NoTick EXCEPT
                               !.prim = "sleep",
                               !.progress = pumps
                                            /\ process_waiting_messages(inbox),
                               !.outcome = "sleep_yield",
                               !.first = (call.ticks = 0),
                               !.pumped = pumps,
                               !.interval = interval,
                               !.remaining = frame.t0 + frame.duration - now]
                /\ call' = [call EXCEPT
                               !.ticks = @ + 1,
                               !.pumps = @ + (IF pumps THEN 1 ELSE 0),
                               !.sleeps = @ + 1,
                               !.yields = @ + 1,
                               !.pumpTime = @ + pt]
                /\ task' = "Suspended"
                /\ nyields' = nyields + 1
                /\ UNCHANGED <<pc, frame>>
       ELSE /\ call' = [call EXCEPT !.returned = TRUE, !.endQ = quantum]
            /\ pc' = "body"
            /\ frame' = NoFrame
            /\ UNCHANGED <<nodes, slots, inbox, pumped, clock, tick, task,
                           nyields>>
    /\ UNCHANGED <<delivered, ctx, expected, node_id_str, req, exc, scopes,
                   locks, sent, driver, driverExc, quantum, ncalls, nlocks>>
    /\ UNCHANGED run

\* tools/run.py, prog, first statement:
\* "with await client.lock(node_id=robot_id, node_name=robot_name) as node"
RunLock ==
    /\ task = "Running" /\ pc = "body"
    /\ run.main /\ run.at = "lock"
    /\ run' = [run EXCEPT !.at = "locking"]
    /\ tick' = NoTick
    /\ IF lock_accepts(LockKwargs)
       THEN /\ ctx' = "lock"
            /\ nlocks' = nlocks + 1
            /\ IF run.robot_id = None
               THEN /\ expected' = NODE_STATUS_AVAILABLE
                    /\ call' = NewCall("wfs",
                                        StatusCond(nodes,
                                                   NODE_STATUS_AVAILABLE),
                                        NODE_STATUS_AVAILABLE, 0)
                    /\ pc' = "wfs"
                    /\ UNCHANGED node_id_str
               ELSE /\ node_id_str' = run.robot_id
                    /\ call' = NoCall
                    /\ pc' = "lock_node"
                    /\ UNCHANGED expected
            /\ UNCHANGED exc
       ELSE /\ exc' = "TypeError"
            /\ pc' = "unwinding"
            /\ UNCHANGED <<ctx, nlocks, expected, call, node_id_str>>
    /\ UNCHANGED <<nodes, inbox, delivered, slots, task, req, scopes,
                   locks, sent, driver, driverExc, quantum, ncalls, clock,
                   pumped, nyields, frame>>

\* task body: with await client.lock(sel) as node: ...
\* lock() up to "yield from self.wait_for_status" / "self.lock_node"
CallLock ==
    /\ task = "Running" /\ pc = "body"
    /\ nlocks < MaxLocks
    /\ nlocks' = nlocks + 1
    /\ UNCHANGED ncalls
    /\ ctx' = "lock"
    /\ \E sel \in NodeIds \cup {None} :
          IF sel = None
          THEN /\ expected' = NODE_STATUS_AVAILABLE
               /\ call' = NewCall("wfs",
                                   StatusCond(nodes, NODE_STATUS_AVAILABLE),
                                   NODE_STATUS_AVAILABLE, 0)
               /\ pc' = "wfs"
               /\ UNCHANGED node_id_str
          ELSE /\ node_id_str' = sel
               /\ call' = NoCall
               /\ pc' = "lock_node"
               /\ UNCHANGED expected
    /\ tick' = NoTick
    /\ UNCHANGED <<nodes, inbox, delivered, slots, task, req, exc,
                   scopes, locks, sent, driver, driverExc, quantum>>
    /\ UNCHANGED <<clock, pumped, nyields, frame>>
    /\ UNCHANGED run

\* lock(): node_id_str = self.first_node()["node_id_str"]
LockPick ==
    /\ task = "Running" /\ pc = "lock_pick"
    /\ IF lock_pick(nodes) = NoNode
       THEN /\ exc' = "TypeError"
            /\ pc' = "unwinding"
            /\ ctx' = "body"
            /\ UNCHANGED node_id_str
       ELSE /\ node_id_str' = lock_pick(nodes).node_id_str
            /\ pc' = "lock_node"
            /\ UNCHANGED <<exc, ctx>>
    /\ UNCHANGED <<nodes, inbox, delivered, slots, task, expected,
                   req, scopes, locks, sent, driver, driverExc, quantum,
                   ncalls, nlocks, call, tick>>
    /\ UNCHANGED <<clock, pumped, nyields, frame>>
    /\ UNCHANGED run

\* lock(): result = yield from self.lock_node(node_id_str)
LockNode ==
    /\ task = "Running" /\ pc = "lock_node"
    /\ StartSend("lock", node_id_str, "lock_result")
    /\ UNCHANGED <<nodes, inbox, delivered, ctx, expected, node_id_str, exc,
                   scopes, locks, sent, driver, driverExc, quantum, ncalls, nlocks,
                   tick>>
    /\ nyields' = IF task' = "Suspended" THEN nyields + 1 ELSE nyields
    /\ UNCHANGED <<clock, pumped, frame>>
    /\ UNCHANGED run

\* lock(): raise on an error reply, else return the guard; the caller's
\* "with" enters the guard.  A raised lock error is either handled by the
\* task around the call or left to propagate.
LockResult ==
    /\ task = "Running" /\ pc = "lock_result"
    /\ LET result == slots[req].ret
           outcome == lock_outcome(result)
           guard == [req |-> req, node_id_str |-> node_id_str,
                     result |-> result, outcome |-> outcome,
                     bound |-> None, exits |-> 0, exitType |-> None]
       IN  IF outcome = "guard"
           THEN /\ locks' = Append(locks,
                              [guard EXCEPT !.bound = Lock_enter(guard)])
                /\ scopes' = Append(scopes, Len(locks) + 1)
                /\ pc' = "body"
                /\ UNCHANGED exc
           ELSE /\ locks' = Append(locks, guard)
                /\ UNCHANGED scopes
                /\ \E caught \in BOOLEAN :
                      IF caught
                      THEN pc' = "body" /\ UNCHANGED exc
                      ELSE pc' = "unwinding" /\ exc' = "Exception"
    /\ ctx' = "body"
    /\ req' = 0
    /\ node_id_str' = None
    /\ UNCHANGED <<nodes, inbox, delivered, slots, task, expected,
                   sent, driver, driverExc, quantum, ncalls, nlocks, call, tick>>
    /\ UNCHANGED <<clock, pumped, nyields, frame>>
    /\ UNCHANGED run

\* the "with" block is left normally: Lock.__exit__(None, None, None)
ExitScope ==
    /\ task = "Running" /\ pc = "body"
    /\ scopes # <<>>
    /\ LET g == scopes[Len(scopes)]
       IN  /\ sent' = Lock_exit(sent, g, locks[g], None)
           /\ locks' = [locks EXCEPT ![g].exits = @ + 1]
           /\ scopes' = SubSeq(scopes, 1, Len(scopes) - 1)
    /\ UNCHANGED <<nodes, inbox, delivered, slots, task, pc, ctx,
                   expected, node_id_str, req, exc, driver, driverExc,
                   quantum, ncalls, nlocks, call, tick>>
    /\ UNCHANGED <<clock, pumped, nyields, frame>>
    /\ UNCHANGED run

\* the scope-exit logic of a guard that has already been left is invoked
\* again (the guard object is reused in another "with", or __exit__ is
\* called on it)
ReExit ==
    /\ task = "Running" /\ pc = "body"
    /\ \E g \in DOMAIN locks :
          /\ locks[g].outcome = "guard"
          /\ locks[g].exits >= 1
          /\ locks[g].exits < MaxExits
          /\ sent' = Lock_exit(sent, g, locks[g], None)
          /\ locks' = [locks EXCEPT ![g].exits = @ + 1]
    /\ UNCHANGED <<nodes, inbox, delivered, slots, task, pc, ctx,
                   expected, node_id_str, req, exc, scopes, driver,
                   driverExc, quantum, ncalls, nlocks, call, tick>>
    /\ UNCHANGED <<clock, pumped, nyields, frame>>
    /\ UNCHANGED run

\* the task body raises
Raise ==
    /\ task = "Running" /\ pc = "body"
    /\ \E e \in Exceptions : exc' = e
    /\ pc' = "unwinding"
    /\ UNCHANGED <<nodes, inbox, delivered, slots, task, ctx,
                   expected, node_id_str, req, scopes, locks, sent, driver,
                   driverExc, quantum, ncalls, nlocks, call, tick>>
    /\ UNCHANGED <<clock, pumped, nyields, frame>>
    /\ UNCHANGED run

\* the exception leaves the innermost open "with": Lock.__exit__(type, ...)
UnwindStep ==
    /\ task = "Running" /\ pc = "unwinding"
    /\ scopes # <<>>
    /\ LET g == scopes[Len(scopes)]
       IN  /\ sent' = Lock_exit(sent, g, locks[g], exc)
           /\ locks' = [locks EXCEPT ![g].exits = @ + 1,
                                     ![g].exitType = exc]
           /\ scopes' = SubSeq(scopes, 1, Len(scopes) - 1)
    /\ UNCHANGED <<nodes, inbox, delivered, slots, task, pc, ctx,
                   expected, node_id_str, req, exc, driver, driverExc,
                   quantum, ncalls, nlocks, call, tick>>
    /\ UNCHANGED <<clock, pumped, nyields, frame>>
    /\ UNCHANGED run

\* the exception leaves the coroutine: co.send(None) raises in
\* run_async_program
Propagate ==
    /\ task = "Running" /\ pc = "unwinding"
    /\ scopes = <<>>
    /\ task' = "Failed"
    /\ pc' = "done"
    /\ driver' = run_async_program(co_send_raises(exc))
    /\ driverExc' = IF driver' = "raised" THEN co_send_raises(exc) ELSE None
    /\ UNCHANGED <<nodes, inbox, delivered, slots, ctx, expected,
                   node_id_str, req, exc, scopes, locks, sent, quantum,
                   ncalls, nlocks, call, tick>>
    /\ UNCHANGED <<clock, pumped, nyields, frame>>
    /\ UNCHANGED run

\* the task body returns: co.send(None) raises StopIteration
Return ==
    /\ task = "Running" /\ pc = "body"
    /\ scopes = <<>>
    /\ task' = "Completed"
    /\ pc' = "done"
    /\ driver' = run_async_program("StopIteration")
    /\ driverExc' = IF driver' = "raised" THEN "StopIteration" ELSE None
    /\ UNCHANGED <<nodes, inbox, delivered, slots, ctx, expected,
                   node_id_str, req, exc, scopes, locks, sent, quantum,
                   ncalls, nlocks, call, tick>>
    /\ UNCHANGED <<clock, pumped, nyields, frame>>
    /\ UNCHANGED run

Next ==
    \/ Deliver
    \/ DeliverUnlockReply
    \/ DeliverEvent
    \/ RunLock
    \/ Resume
    \/ CallWaitForNode
    \/ CallWaitForStatus
    \/ WaitForNodeTick
    \/ WaitForStatusTick
    \/ CallSend
    \/ CallUnlockNode
    \/ SendWaitTick
    \/ CallOp
    \/ OpResult
    \/ CallSleep
    \/ SleepTick
    \/ CallLock
    \/ LockPick
    \/ LockNode
    \/ LockResult
    \/ ExitScope
    \/ ReExit
    \/ Raise
    \/ UnwindStep
    \/ Propagate
    \/ Return

Spec == Init /\ [][Next]_vars

\* programs that only wait for nodes and statuses
NextWait ==
    \/ Deliver
    \/ Resume
    \/ CallWaitForNode
    \/ CallWaitForStatus
    \/ WaitForNodeTick
    \/ WaitForStatusTick
    \/ Return

SpecWait == Init /\ [][NextWait]_vars

\* programs that only send requests and wait for their replies
NextSend ==
    \/ Deliver
    \/ Resume
    \/ CallSend
    \/ SendWaitTick
    \/ Return

SpecSend == Init /\ [][NextSend]_vars

\* programs of unlock_node calls
NextUnlockNode ==
    \/ Deliver
    \/ Resume
    \/ CallUnlockNode
    \/ SendWaitTick
    \/ Return

SpecUnlockNode == Init /\ [][NextUnlockNode]_vars

\* programs of compile, run, flash and watch
NextOps ==
    \/ Deliver
    \/ Resume
    \/ CallOp
    \/ SendWaitTick
    \/ OpResult
    \/ Return

SpecOps == Init /\ [][NextOps]_vars

\* the run tool: prog of tools/run.py, and a robot that emits events
NextRun ==
    \/ DeliverEvent
    \/ Resume
    \/ RunLock
    \/ Propagate

SpecRun == InitRun /\ [][NextRun]_vars

\* programs that only sleep
NextSleep ==
    \/ Deliver
    \/ Resume
    \/ CallSleep
    \/ SleepTick
    \/ Propagate
    \/ Return

SpecSleep == Init /\ [][NextSleep]_vars

\* programs that lock nodes, in scopes that end normally or by a failure
NextLock ==
    \/ Deliver
    \/ Resume
    \/ CallLock
    \/ WaitForStatusTick
    \/ LockPick
    \/ LockNode
    \/ SendWaitTick
    \/ LockResult
    \/ ExitScope
    \/ ReExit
    \/ Raise
    \/ UnwindStep
    \/ Propagate
    \/ Return

SpecLock == Init /\ [][NextLock]_vars

\* programs that lock a node, leave the scope and go on with a sleep, with
\* a peer that answers the lock request inside the send operation or never,
\* and answers unlock requests or not
NextUnlock ==
    \/ DeliverUnlockReply
    \/ Resume
    \/ CallLock
    \/ LockNode
    \/ SendWaitTick
    \/ LockResult
    \/ ExitScope
    \/ CallSleep
    \/ SleepTick
    \/ Propagate
    \/ Return

SpecUnlock == Init /\ [][NextUnlock]_vars
----------------------------------------------------------------------------
\* Properties

Guards == {g \in DOMAIN locks : locks[g].outcome = "guard"}
OpenScopes == {scopes[i] : i \in DOMAIN scopes}

\* C1: a guard obtained from a successful lock() and used as a "with" block
\* has sent no unlock request while its scope is open, and exactly one once
\* its scope has been left, normally or by an exception; when the program
\* has ended every guard's scope has been left.
C1_UnlockOnceAtScopeExit ==
    \A g \in Guards :
        /\ locks[g].exits = 0 => Unlocks(g) = 0 /\ g \in OpenScopes
        /\ locks[g].exits = 1 => Unlocks(g) = 1 /\ g \notin OpenScopes
        /\ driver # "running" => locks[g].exits >= 1

\* a guard whose scope was left by an exception has sent its one unlock
C1_Witness ==
    \E g \in Guards :
        /\ locks[g].exits = 1
        /\ locks[g].exitType = "Exception"
        /\ Unlocks(g) = 1

\* C2: a lock() whose reply carries an error raises, returns no guard, and
\* no unlock request is ever sent for that attempt.
C2_NoUnlockAfterLockError ==
    \A g \in DOMAIN locks :
        locks[g].result # None =>
            /\ locks[g].outcome = "raised"
            /\ g \notin OpenScopes
            /\ \A i \in DOMAIN sent : sent[i].req # locks[g].req

\* a lock() failed on an error reply, and the program went on and ended
C2_Witness ==
    \E g \in DOMAIN locks :
        /\ locks[g].result = "error"
        /\ locks[g].outcome = "raised"
        /\ driver # "running"

\* C3 (as claimed): however often the scope-exit logic of a guard is
\* invoked, the guard has sent one unlock request.
C3_ReleaseIdempotent ==
    \A g \in Guards : locks[g].exits >= 1 => Unlocks(g) = 1

\* C4: an exception raised in the task leaves run_async_program, and when
\* it does every guard whose scope it unwound has sent its unlock; while a
\* scope remains to be unwound the exception has not left yet.
C4_FailurePropagatesAfterUnlock ==
    /\ task = "Failed" => driver = "raised" /\ driverExc # None
    /\ pc = "unwinding" => driver = "running"
    /\ driver = "raised" =>
          /\ scopes = <<>>
          /\ \A g \in Guards : Unlocks(g) >= 1

\* a StopIteration raised inside a guarded scope reached the caller of
\* run_async_program, after the guard's unlock
C4_Witness ==
    /\ driver = "raised"
    /\ driverExc = "RuntimeError"
    /\ \E g \in Guards : locks[g].exitType = "StopIteration" /\ Unlocks(g) = 1

\* C5: a send_msg_and_get_result call returns a value that was passed to
\* its own completion callback.
C5_OwnReply ==
    \A k \in DOMAIN slots :
        slots[k].state = "returned" => slots[k].ret \in slots[k].got

\* a reply to the first request was dispatched after that call had
\* returned, and the second call returned its own, different reply
C5_Witness ==
    /\ Len(slots) >= 2
    /\ slots[1].late
    /\ slots[2].state = "returned"
    /\ slots[2].ret \notin slots[1].got

\* C6 (as claimed): a call returns the value of the first invocation of its
\* completion callback.
C6_FirstCompletionWins ==
    \A k \in DOMAIN slots :
        slots[k].state = "returned" => slots[k].ret = slots[k].first

\* C7: when the callback fires inside the send operation, the call returns
\* the reply in the quantum of the call, without yield, sleep or pump.
C7_SyncReplyNoTick ==
    (call.prim = "send" /\ call.sync) =>
        /\ call.returned
        /\ call.endQ = call.startQ
        /\ call.yields = 0 /\ call.sleeps = 0 /\ call.pumps = 0
        /\ slots[call.req].state = "returned"
        /\ slots[call.req].ret = slots[call.req].first

\* a send completed synchronously with an error payload, in a quantum
\* after the first
C7_Witness ==
    /\ call.prim = "send" /\ call.sync /\ call.returned
    /\ call.startQ >= 2
    /\ slots[call.req].ret = "error"

\* C8: wait_for_node returns only with a non-empty node list, and returns
\* in the tick whose pump made the list non-empty.
C8_WaitForNode ==
    /\ tick.prim = "wfn" =>
          /\ tick.outcome = "return" => tick.after
          /\ (~tick.before /\ tick.after) => tick.outcome = "return"
    /\ (call.prim = "wfn" /\ call.returned) => NodeCond(nodes)

\* the first node appeared in the pump of a tick after the first one, and
\* wait_for_node returned in that tick
C8_Witness ==
    /\ tick.prim = "wfn" /\ ~tick.first
    /\ ~tick.before /\ tick.after
    /\ tick.outcome = "return"

\* C9: wait_for_status returns only when the first node has the expected
\* status, and returns in the tick whose pump made it so.
C9_WaitForStatus ==
    /\ tick.prim = "wfs" =>
          /\ tick.outcome = "return" => tick.after
          /\ (~tick.before /\ tick.after) => tick.outcome = "return"
    /\ (call.prim = "wfs" /\ call.returned) => StatusCond(nodes, call.arg)

\* a node known with another status got the expected status in the pump of
\* the third tick or a later one, and wait_for_status returned in that tick
C9_Witness ==
    /\ tick.prim = "wfs" /\ tick.hadNode
    /\ ~tick.before /\ tick.after
    /\ tick.outcome = "return"
    /\ call.ticks >= 3
    /\ call.arg = NODE_STATUS_AVAILABLE

\* C10 (as claimed): a condition wait called when its condition already
\* holds returns in its first tick, without yielding.
C10_ConditionTriedFirst ==
    (call.prim \in {"wfn", "wfs"} /\ call.cond /\ call.ticks >= 1) =>
        call.returned /\ call.yields = 0

\* C11 (as claimed): a sleep(-1, wake) whose wake predicate is true returns,
\* in the first tick at which the predicate is true.
C11_WakeEndsSleep ==
    (call.prim = "sleep" /\ call.wake = "true") =>
        call.returned /\ ~call.raised

\* x limited to the interval [lo, hi]
Clamp(x, lo, hi) == IF x < lo THEN lo ELSE IF x > hi THEN hi ELSE x

\* C12: a sleep(d) with d >= 0 returns only when the clock has advanced by
\* at least d since the call, whatever time the pumps took.
C12_SleepNeverEarly ==
    (call.prim = "sleep" /\ call.returned /\ call.duration >= 0) =>
        clock - call.t0 >= call.duration

\* a sleep of 2500 units whose pumps took time returned after two ticks or
\* more
C12_Witness ==
    /\ call.prim = "sleep" /\ call.returned
    /\ call.duration = 2500
    /\ call.ticks >= 2
    /\ call.pumpTime > 0

\* C13: the blocking interval of a tick of sleep(d), d >= 0, is the time
\* remaining to the deadline clamped to [DEFAULT_SLEEP / 1000,
\* DEFAULT_SLEEP], and when the pumps take no time the sleep returns at most
\* one base interval after the deadline.
C13_SleepIntervalClamped ==
    /\ (tick.prim = "sleep" /\ call.prim = "sleep" /\ call.duration >= 0) =>
          tick.interval =
              Clamp(tick.remaining, DEFAULT_SLEEP \div 1000, DEFAULT_SLEEP)
    /\ (call.prim = "sleep" /\ call.returned /\ call.duration >= 0
        /\ call.pumpTime = 0) =>
          clock <= call.t0 + call.duration + DEFAULT_SLEEP

\* a sleep of 2500 units with pumps that took no time returned after three
\* ticks, the last one shortened to the 500 units that remained
C13_Witness ==
    /\ call.prim = "sleep" /\ call.returned
    /\ call.duration = 2500
    /\ call.pumpTime = 0
    /\ call.ticks = 3
    /\ tick.prim = "sleep" /\ tick.interval = 500

\* C14: every tick of a waiting sleep pumps the Session: between two
\* yields of sleep, process_waiting_messages is called.
C14_SleepTickPumps ==
    /\ tick.prim = "sleep" => tick.pumped
    /\ call.prim = "sleep" => call.pumps = call.yields

\* the second tick of a sleep with a deadline processed an inbound message
C14_Witness ==
    /\ call.prim = "sleep" /\ call.duration >= 0
    /\ call.ticks >= 2
    /\ tick.prim = "sleep" /\ tick.progress

\* C15 (as claimed): every quantum of the root task pumps the Session at
\* least once before the task suspends or ends, the first quantum of a send
\* whose reply is pending and the only quantum of a task that never
\* suspends included.
C15_EveryQuantumPumps ==
    (quantum >= 1 /\ task # "Running") => pumped

\* C16: a root task that ends without ever suspending makes
\* run_async_program return normally after exactly one quantum; in general
\* the driver makes one resumption more than the task has yielded.
C16_OneQuantumWithoutSuspension ==
    task = "Completed" =>
        /\ driver = "returned" /\ driverExc = None
        /\ quantum = nyields + 1
        /\ nyields = 0 => quantum = 1

\* a task whose only call, a send answered inside the send operation, did
\* not suspend has ended in its first quantum
C16_Witness ==
    /\ task = "Completed" /\ driver = "returned"
    /\ nyields = 0 /\ quantum = 1
    /\ call.prim = "send" /\ call.returned /\ call.yields = 0

\* C17 (as claimed): a waiting tick of send_msg_and_get_result blocks for
\* the base interval only if its pump processed no message; a tick whose
\* pump made progress re-checks completion without blocking.
C17_SendTickDiscipline ==
    (tick.prim = "send" /\ tick.progress) => tick.interval = 0

\* some node of the list has status AVAILABLE
SomeAvailable(ns) ==
    \E i \in DOMAIN ns : ns[i].status = NODE_STATUS_AVAILABLE

\* the id of the first node of the list that has status AVAILABLE
FirstAvailable(ns) ==
    LET i == CHOOSE i \in DOMAIN ns :
                 /\ ns[i].status = NODE_STATUS_AVAILABLE
                 /\ \A j \in 1..(i - 1) : ns[j].status # NODE_STATUS_AVAILABLE
    IN  ns[i].node_id_str

\* the task is in the wait of a lock() without selector
LockWaiting == ctx = "lock" /\ call.prim = "wfs" /\ tick.prim = "wfs"

\* lock() without selector is about to send its lock request
LockChosen == ctx = "lock" /\ call.prim = "wfs" /\ pc = "lock_node"

\* C18 (as claimed): lock() without selector stops waiting once some node
\* is AVAILABLE: it does not suspend after a tick whose pump processed a
\* message and left an AVAILABLE node in the list; and it requests the lock
\* of the first AVAILABLE node of the list.
C18_LockFirstAvailable ==
    /\ (LockWaiting /\ pc = "wfs" /\ task = "Suspended" /\ tick.progress) =>
          ~SomeAvailable(nodes)
    /\ (LockChosen /\ SomeAvailable(nodes)) =>
          node_id_str = FirstAvailable(nodes)

\* C18 (amended): lock() without selector ends its wait only in a tick
\* where the first node of the list is AVAILABLE, ends it in every tick
\* whose pump processed a message and left the first node AVAILABLE, and
\* requests the lock of the first node of the list; an AVAILABLE node that
\* is not the first neither ends the wait nor is chosen.
C18_LockFirstNode ==
    /\ LockWaiting =>
          /\ tick.outcome = "return" => tick.after
          /\ (tick.progress /\ tick.after) => tick.outcome = "return"
    /\ (LockWaiting /\ pc = "wfs" /\ task = "Suspended" /\ tick.progress) =>
          ~StatusCond(nodes, NODE_STATUS_AVAILABLE)
    /\ LockChosen =>
          /\ StatusCond(nodes, NODE_STATUS_AVAILABLE)
          /\ node_id_str = nodes[1].node_id_str

\* after a wait of two ticks or more, lock() without selector requests the
\* lock of the first of two known nodes
C18_Witness ==
    /\ LockChosen
    /\ call.ticks >= 2
    /\ Len(nodes) = 2
    /\ node_id_str = nodes[1].node_id_str
    /\ node_id_str # nodes[2].node_id_str

\* a derived operation has returned to the task body
OpReturned == call.op \in DerivedOps

\* C19: compile, run, flash and watch return to their caller the payload
\* that the completion callback of their send operation received and that
\* send_msg_and_get_result returned, unchanged, and an error payload raises
\* nothing in the task.
C19_DerivedOpsForwardPayload ==
    OpReturned =>
        /\ call.value = slots[call.req].ret
        /\ call.value \in slots[call.req].got
        /\ exc = None /\ task # "Failed" /\ driver # "raised"

\* a derived operation whose reply arrived while it waited returned the
\* error payload, and the task ended normally
C19_Witness ==
    /\ OpReturned /\ call.yields >= 1
    /\ call.value = "error"
    /\ task = "Completed" /\ driver = "returned"

\* the inbox holds the reply to an unlock request
HasUnlockReply(box) ==
    \E j \in DOMAIN box :
        box[j].type = "reply" /\ box[j].req > MaxCalls + MaxLocks

\* C20: the unlock sent at scope exit is fire-and-forget: it is sent with
\* no completion callback, the step that sends it registers no callback and
\* leaves the task running in the same quantum with no new exception, and
\* the pump that processes the reply to an unlock, error or not, raises
\* nothing and invokes no callback for it.
C20_UnlockFireAndForget ==
    /\ [](\A i \in DOMAIN sent :
             sent[i].guard # 0 => sent[i].request_id_notify = None)
    /\ [][(Len(sent') > Len(sent) /\ sent'[Len(sent')].guard # 0) =>
             /\ task = "Running" /\ task' = "Running"
             /\ quantum' = quantum /\ nyields' = nyields
             /\ slots' = slots
             /\ exc' = exc /\ pc' = pc]_vars
    /\ [][(HasUnlockReply(inbox) /\ inbox' = <<>>) =>
             /\ exc' = exc /\ pc' # "unwinding"
             /\ Len(slots') = Len(slots)
             /\ \A k \in DOMAIN slots :
                   slots'[k].n <= slots[k].n + Len(inbox) - 1]_vars

\* the error reply to an unlock request was received and processed by a
\* later pump, and the task ended normally
C20_Witness ==
    /\ \E i \in DOMAIN sent : sent[i].reply = "error"
    /\ inbox = <<>>
    /\ task = "Completed" /\ driver = "returned"

\* tools/run.py, prog: the conditions under which the program reaches its
\* sleep for events: not --stop, "scratchpad < 2 and sleep", where sleep is
\* --sleep, or by default whether there are events
SleepMode(r) ==
    /\ r.main /\ ~r.stop /\ r.scratchpad < 2
    /\ r.sleep = "True" \/ (r.sleep = None /\ r.has_events)

\* C21 (as claimed): in the run tool, started so that the program sleeps
\* for events, the "_exit" event (or the VM error) of the robot ends the
\* run: once the run has ended, main has returned normally with the exit
\* status received.
C21_ExitEventEndsRun ==
    (SleepMode(run) /\ run.emitted # None /\ driver # "running") =>
        /\ driver = "returned"
        /\ run.status = run.emitted

\* C22: the unlock request of a guard carries the node id of the lock
\* request that produced the guard, which is the value bound at scope entry;
\* a lock() without selector reads the id of the first node right after its
\* wait has returned, from a node list that is not empty, and sends it.
C22_NodeIdPreserved ==
    /\ \A i \in DOMAIN sent :
          /\ sent[i].node_id_str = slots[locks[sent[i].guard].req].node_id_str
          /\ sent[i].node_id_str = locks[sent[i].guard].bound
    /\ \A g \in Guards :
          locks[g].bound = slots[locks[g].req].node_id_str
    /\ LockChosen =>
          /\ first_node(nodes) # NoNode
          /\ node_id_str = first_node(nodes).node_id_str
    /\ (ctx = "lock" /\ pc = "lock_result" /\ tick.prim = "wfs") =>
          slots[req].node_id_str = node_id_str
    /\ exc # "TypeError"

\* a lock() without selector waited, found the first of two nodes, was
\* answered at once, and its scope was left: the unlock names that node
C22_Witness ==
    /\ tick.prim = "wfs" /\ tick.outcome = "return"
    /\ Len(nodes) = 2
    /\ Len(sent) = 1 /\ Len(locks) = 1
    /\ sent[1].node_id_str = nodes[1].node_id_str
    /\ locks[1].bound = nodes[1].node_id_str
====
